---- MODULE Spec2Model ----
(***************************************************************************)
(* K-means dominant colour extraction (package dominantcolor).             *)
(*                                                                         *)
(* The model follows dominantcolor.go (findClusters, FindWeight, FindN,    *)
(* Find) and the cluster type of the k-means file (kMeanCluster,           *)
(* kMeanClusters, byWeight).                                               *)
(*                                                                         *)
(* An invocation of the package keeps all of its state in locals, so the   *)
(* state of one invocation is a record ("frame"); calls is the sequence of *)
(* the invocations under observation: one in Spec, two invocations on the  *)
(* same arguments in SpecTwice.                                            *)
(*                                                                         *)
(* Modelling decisions:                                                    *)
(*  - imaging.Fit is an external collaborator: img is the image it         *)
(*    returned (every edge at most resizeTo, the bounds starting at 0,0).  *)
(*  - math/rand is an external library. A source created from a seed       *)
(*    yields a fixed sequence; which sequence is not known to the model:   *)
(*    a draw is any value of the range, and two sources with the same seed *)
(*    at the same position yield the same value. The invocations of        *)
(*    SpecTwice start together and each draws once in every SeedSample     *)
(*    step, so the sources of the invocations that are still seeding are   *)
(*    at the same position. rnd.Intn(n) panics for n <= 0 (documented      *)
(*    behaviour of math/rand).                                             *)
(*  - sort.Sort on fewer than 7 elements is an insertion sort in every Go  *)
(*    release; Sort replays it with byWeight's Less and Swap. On 7 to 12   *)
(*    elements the release decides: an insertion sort (Go 1.19 and later), *)
(*    or one pass of shell sort with gap 6 followed by an insertion sort   *)
(*    (Go 1.6 to 1.18); SortOutcomes is the set of both results. The       *)
(*    library documents that Sort is not guaranteed to be stable.          *)
(*  - uint32 arithmetic: aggregates stay below 2^32 for images of at most  *)
(*    256 x 256 pixels, and (uint32(r) - uint32(c))^2 mod 2^32 equals      *)
(*    (r - c)^2, so both are computed on the integers.                     *)
(*  - float64(weight) / totalWeight is kept as the exact fraction          *)
(*    [num, den].                                                          *)
(***************************************************************************)
EXTENDS Integers, Sequences, FiniteSets, TLC

VARIABLES
    img,        \* the shrunk image: [coordinates -> <<r, g, b, a>>], the 16-bit values of At(x, y).RGBA()
    width,      \* bounds.Dx()
    height,     \* bounds.Dy()
    api,        \* the exported function the caller invoked
    nClusters,  \* the cluster count argument handed to FindWeight
    calls       \* the invocations: a sequence of frames

vars == <<img, width, height, api, nClusters, calls>>

-----------------------------------------------------------------------------
(* Program constants *)

maxSample == 10

nIterations == 50

maxBrightness == 665

minDarkness == 100

nClustersDefault == 4

(* Bounds of the model *)

MaxPixels == 4

MaxNClusters == 2

MaxRanked == 3

MaxSorted == 7

MaxWeight == 2

-----------------------------------------------------------------------------
(* Pixels. A pixel is what At(x, y).RGBA() returns: four 16-bit values.    *)

Transparent == <<0, 0, 0, 0>>

Mid127 == <<32639, 0, 32639, 65535>>

Mid128 == <<32896, 0, 32896, 65535>>

Red == <<65535, 0, 0, 65535>>

Blue == <<0, 0, 65535, 65535>>

Black == <<0, 0, 0, 65535>>

White == <<65535, 65535, 65535, 65535>>

PaletteSeq == <<Transparent, Mid127, Mid128, Red, Blue>>

\* A palette with colours outside the brightness window of Find.
BrightnessPaletteSeq == <<Transparent, Black, Red, White, Blue>>

\* uint8(ri / 0x101)
ToUint8(v) == (v \div 257) % 256

Coords == (0 .. width - 1) \X (0 .. height - 1)

\* The k-th pixel (k = 1 ..) of the pass "for x ... for y ...".
ScanAt(k, h) == <<(k - 1) \div h, (k - 1) % h>>

\* rnd := rand.New(rand.NewSource(0)): the seed of invocation c.
NewSourceOwn(c) == c

NewSource(c) == 0

-----------------------------------------------------------------------------
(* kMeanCluster *)

NewCluster ==
    [centroid |-> <<0, 0, 0>>, aggregate |-> <<0, 0, 0>>, counter |-> 0, weight |-> 0]

SetCentroid(k, r, g, b) == [k EXCEPT !.centroid = <<r, g, b>>]

IsAtCentroid(k, r, g, b) ==
    r = k.centroid[1] /\ g = k.centroid[2] /\ b = k.centroid[3]

\* A recompute that also acts on a cluster that received no pixel.
RecomputeCentroidAlways(k) ==
    IF k.counter > 0
    THEN [centroid  |-> <<(k.aggregate[1] \div k.counter) % 256,
                          (k.aggregate[2] \div k.counter) % 256,
                          (k.aggregate[3] \div k.counter) % 256>>,
          aggregate |-> <<0, 0, 0>>,
          weight    |-> k.counter,
          counter   |-> 0]
    ELSE [k EXCEPT !.weight = 0]

\* A recompute that leaves the aggregate and the counter for the next round.
RecomputeCentroidNoReset(k) ==
    IF k.counter > 0
    THEN [centroid  |-> <<(k.aggregate[1] \div k.counter) % 256,
                          (k.aggregate[2] \div k.counter) % 256,
                          (k.aggregate[3] \div k.counter) % 256>>,
          aggregate |-> k.aggregate,
          weight    |-> k.counter,
          counter   |-> k.counter]
    ELSE k

RecomputeCentroidNoWeight(k) ==
    IF k.counter > 0
    THEN [centroid  |-> <<(k.aggregate[1] \div k.counter) % 256,
                          (k.aggregate[2] \div k.counter) % 256,
                          (k.aggregate[3] \div k.counter) % 256>>,
          aggregate |-> <<0, 0, 0>>,
          weight    |-> k.weight,
          counter   |-> 0]
    ELSE k

RecomputeCentroid(k) ==
    IF k.counter > 0
    THEN [centroid  |-> <<(k.aggregate[1] \div k.counter) % 256,
                          (k.aggregate[2] \div k.counter) % 256,
                          (k.aggregate[3] \div k.counter) % 256>>,
          aggregate |-> <<0, 0, 0>>,
          weight    |-> k.counter,
          counter   |-> 0]
    ELSE k

AddPoint(k, r, g, b) ==
    [k EXCEPT !.aggregate = <<k.aggregate[1] + r, k.aggregate[2] + g, k.aggregate[3] + b>>,
              !.counter = k.counter + 1]

GetDistanceSqr(k, r, g, b) ==
    (r - k.centroid[1]) * (r - k.centroid[1])
    + (g - k.centroid[2]) * (g - k.centroid[2])
    + (b - k.centroid[3]) * (b - k.centroid[3])

CompareCentroidWithAggregate(k) ==
    IF k.counter = 0
    THEN FALSE
    ELSE /\ (k.aggregate[1] \div k.counter) % 256 = k.centroid[1]
         /\ (k.aggregate[2] \div k.counter) % 256 = k.centroid[2]
         /\ (k.aggregate[3] \div k.counter) % 256 = k.centroid[3]

(* kMeanClusters *)

ContainsCentroid(a, r, g, b) ==
    \E n \in 1 .. Len(a) : IsAtCentroid(a[n], r, g, b)

\* The loop of Closest from index n on; closest = 0 stands for nil. The first
\* distance is always below math.MaxUint32, so the first cluster is always taken.
RECURSIVE ClosestFrom(_, _, _, _, _, _, _)
ClosestFrom(a, n, closest, distanceToClosest, r, g, b) ==
    IF n > Len(a)
    THEN closest
    ELSE LET d == GetDistanceSqr(a[n], r, g, b)
         IN  IF closest = 0 \/ d < distanceToClosest
             THEN ClosestFrom(a, n + 1, n, d, r, g, b)
             ELSE ClosestFrom(a, n + 1, closest, distanceToClosest, r, g, b)

ClosestFirstOnly(a, r, g, b) == IF Len(a) = 0 THEN 0 ELSE 1

Closest(a, r, g, b) == ClosestFrom(a, 1, 0, 0, r, g, b)

(* byWeight and sort.Sort *)

Less(a, p, q) == a[p].weight > a[q].weight

Swap(a, p, q) == [a EXCEPT ![p] = a[q], ![q] = a[p]]

\* for j := p; j > 1 && Less(j, j-1); j-- { Swap(j, j-1) }
RECURSIVE SinkFrom(_, _)
SinkFrom(a, p) ==
    IF p > 1 /\ Less(a, p, p - 1)
    THEN SinkFrom(Swap(a, p, p - 1), p - 1)
    ELSE a

RECURSIVE InsertionSortFrom(_, _)
InsertionSortFrom(a, p) ==
    IF p > Len(a) THEN a ELSE InsertionSortFrom(SinkFrom(a, p), p + 1)

\* for i := 7; i <= n; i++ { if Less(i, i-6) { Swap(i, i-6) } }
RECURSIVE ShellPassFrom(_, _)
ShellPassFrom(a, p) ==
    IF p > Len(a) THEN a
    ELSE ShellPassFrom(IF Less(a, p, p - 6) THEN Swap(a, p, p - 6) ELSE a, p + 1)

\* What sort.Sort(byWeight(a)) leaves in a, for at most 12 elements, over the
\* Go releases; one arrangement when a has fewer than 7 elements.
SortOutcomes(a) ==
    {InsertionSortFrom(a, 2), InsertionSortFrom(ShellPassFrom(a, 7), 2)}

SortUnsorted(a) == a

Sort(a) == InsertionSortFrom(a, 2)

-----------------------------------------------------------------------------
(* findClusters *)

\* The pixel pass of one round, from the k-th pixel on.
RECURSIVE AssignFrom(_, _)
AssignFrom(a, k) ==
    IF k > width * height
    THEN a
    ELSE LET p == img[ScanAt(k, height)]
         IN  IF p[4] = 0
             THEN AssignFrom(a, k + 1)
             ELSE LET r == ToUint8(p[1])
                      g == ToUint8(p[2])
                      b == ToUint8(p[3])
                      closest == Closest(a, r, g, b)
                  IN  AssignFrom([a EXCEPT ![closest] = AddPoint(a[closest], r, g, b)], k + 1)

\* for _, c := range clusters { convergence = convergence && c.Compare...(); c.RecomputeCentroid() }
RECURSIVE RecomputeFrom(_, _, _)
RecomputeFrom(a, n, convergence) ==
    IF n > Len(a)
    THEN [clusters |-> a, convergence |-> convergence]
    ELSE RecomputeFrom([a EXCEPT ![n] = RecomputeCentroid(a[n])], n + 1,
                       convergence /\ CompareCentroidWithAggregate(a[n]))

\* The frame of an invocation that has not started yet.
NewFrame ==
    [pc          |-> "call",
     nCluster    |-> 0,
     rnd         |-> [seed |-> 0],
     clusters    |-> <<>>,
     i           |-> 0,
     j           |-> 0,
     round       |-> 0,
     convergence |-> FALSE,
     n           |-> 0,
     passed      |-> <<>>,
     checked     |-> {},
     recomputed  |-> {},
     unsorted    |-> <<>>,
     colors      |-> <<>>,
     cols        |-> <<>>,
     found       |-> <<>>]

\* FindWeight's entry and findClusters up to the seeding loop.
EnterStep(f, c) ==
    [f EXCEPT !.pc = "seed",
              !.nCluster = IF nClusters <= 0 THEN nClustersDefault ELSE nClusters,
              !.rnd = [seed |-> NewSource(c)]]

SampleFailedNextCluster(f) ==
    IF f.j + 1 < maxSample
    THEN [f EXCEPT !.j = f.j + 1]
    ELSE [f EXCEPT !.i = f.i + 1, !.j = 0,
                   !.pc = IF f.i + 1 < f.nCluster THEN "seed" ELSE "iterate"]

\* A sample that seeded no cluster: the next j, or the end of seeding.
SampleFailed(f) ==
    IF f.j + 1 < maxSample
    THEN [f EXCEPT !.j = f.j + 1]
    ELSE [f EXCEPT !.pc = "iterate"]

SeedStepAnyAlpha(f, pt) ==
    LET p == img[pt]
        r == ToUint8(p[1])
        g == ToUint8(p[2])
        b == ToUint8(p[3])
    IN  IF ~ContainsCentroid(f.clusters, r, g, b)
        THEN [f EXCEPT !.clusters = Append(f.clusters, SetCentroid(NewCluster, r, g, b)),
                       !.i = f.i + 1,
                       !.j = 0,
                       !.pc = IF f.i + 1 < f.nCluster THEN "seed" ELSE "iterate"]
        ELSE SampleFailed(f)

\* One pass of the sampling loop (one j), the sampler having drawn pt.
SeedStep(f, pt) ==
    LET p == img[pt]
        r == ToUint8(p[1])
        g == ToUint8(p[2])
        b == ToUint8(p[3])
    IN  IF p[4] = 0
        THEN SampleFailed(f)
        ELSE IF ~ContainsCentroid(f.clusters, r, g, b)
             THEN [f EXCEPT !.clusters = Append(f.clusters, SetCentroid(NewCluster, r, g, b)),
                            !.i = f.i + 1,
                            !.j = 0,
                            !.pc = IF f.i + 1 < f.nCluster THEN "seed" ELSE "iterate"]
             ELSE SampleFailed(f)

\* The condition of the iteration loop.
\* A loop condition that does not look at the convergence flag.
LoopCondNoConvergence(f) ==
    f.round < nIterations /\ Len(f.clusters) # 0

LoopCond(f) ==
    f.round < nIterations /\ ~f.convergence /\ Len(f.clusters) # 0

\* One round: the pixel pass, then the convergence check and the recompute.
RoundStep(f) ==
    LET res == RecomputeFrom(AssignFrom(f.clusters, 1), 1, TRUE)
    IN  [f EXCEPT !.clusters = res.clusters,
                  !.convergence = res.convergence,
                  !.round = f.round + 1]

(* The same round, one statement at a time (SpecSteps). n is the index of   *)
(* the range loop; passed, checked and recomputed are history: the clusters *)
(* as the pixel pass left them, and the clusters on which the round has     *)
(* called CompareCentroidWithAggregate and RecomputeCentroid so far;        *)
(* unsorted, in SpecSort, is the clusters as the loop left them.            *)

\* The pixel pass and "convergence = true".
PassStep(f) ==
    LET a == AssignFrom(f.clusters, 1)
    IN  [f EXCEPT !.clusters = a,
                  !.passed = a,
                  !.convergence = TRUE,
                  !.n = 1,
                  !.checked = {},
                  !.recomputed = {},
                  !.pc = "check"]

\* A check made after the cluster's recompute instead of before it.
CheckStepAfterRecompute(f) ==
    IF f.convergence
    THEN [f EXCEPT !.convergence =
                       CompareCentroidWithAggregate(RecomputeCentroid(f.clusters[f.n])),
                   !.checked = f.checked \cup {f.n},
                   !.pc = "recompute"]
    ELSE [f EXCEPT !.pc = "recompute"]

\* convergence = convergence && c.CompareCentroidWithAggregate(): && does not
\* evaluate its right operand once convergence is false.
CheckStep(f) ==
    IF f.convergence
    THEN [f EXCEPT !.convergence = CompareCentroidWithAggregate(f.clusters[f.n]),
                   !.checked = f.checked \cup {f.n},
                   !.pc = "recompute"]
    ELSE [f EXCEPT !.pc = "recompute"]

\* c.RecomputeCentroid(), then the next cluster or the end of the round.
RecomputeStep(f) ==
    [f EXCEPT !.clusters[f.n] = RecomputeCentroid(f.clusters[f.n]),
              !.recomputed = f.recomputed \cup {f.n},
              !.n = IF f.n < Len(f.clusters) THEN f.n + 1 ELSE f.n,
              !.round = IF f.n < Len(f.clusters) THEN f.round ELSE f.round + 1,
              !.pc = IF f.n < Len(f.clusters) THEN "check" ELSE "iterate"]

\* sort.Sort(byWeight(clusters)); return clusters, float64(width) * float64(height)
SortStep(f) == [f EXCEPT !.clusters = Sort(f.clusters), !.pc = "ranked"]

-----------------------------------------------------------------------------
(* FindWeight, FindN, Find *)

ToColor(k) ==
    [R |-> k.centroid[1], G |-> k.centroid[2], B |-> k.centroid[3], A |-> 255,
     Weight |-> [num |-> k.weight, den |-> width * height]]

WeighStep(f) ==
    [f EXCEPT !.colors = [n \in 1 .. Len(f.clusters) |-> ToColor(f.clusters[n])],
              !.pc = "weighed"]

ToRGBA(c) == [R |-> c.R, G |-> c.G, B |-> c.B, A |-> c.A]

ListStep(f) ==
    [f EXCEPT !.cols = [n \in 1 .. Len(f.colors) |-> ToRGBA(f.colors[n])],
              !.pc = "listed"]

summedColor(c) == c.R + c.G + c.B

AcceptedInclusive(c) == summedColor(c) <= maxBrightness /\ summedColor(c) >= minDarkness

Accepted(c) == summedColor(c) < maxBrightness /\ summedColor(c) > minDarkness

\* The loop of Find from index n on.
RECURSIVE FindFrom(_, _)
FindFrom(colors, n) ==
    IF n > Len(colors)
    THEN colors[1]
    ELSE IF Accepted(colors[n]) THEN colors[n] ELSE FindFrom(colors, n + 1)

FindColor(colors) ==
    IF Len(colors) = 0
    THEN [R |-> 0, G |-> 0, B |-> 0, A |-> 0]
    ELSE FindFrom(colors, 1)

FoundStep(f) == [f EXCEPT !.found = FindColor(f.cols), !.pc = "found"]

-----------------------------------------------------------------------------
(* Inputs *)

\* Non-decreasing sequences of palette indices. The sampler may draw any
\* coordinate and a pass adds the pixels up commutatively, so images that are
\* permutations of one another behave alike: one image per multiset of pixels.
RECURSIVE SortedRuns(_, _, _)
SortedRuns(len, lo, hi) ==
    IF len = 0
    THEN {<<>>}
    ELSE UNION {{<<p>> \o s : s \in SortedRuns(len - 1, p, hi)} : p \in lo .. hi}

ImagesOf(w, h, palette) ==
    {[pt \in (0 .. w - 1) \X (0 .. h - 1) |-> palette[s[pt[1] * h + pt[2] + 1]]] :
        s \in SortedRuns(w * h, 1, Len(palette))}

\* The sizes of the image: every rectangle of at most MaxPixels pixels, the
\* empty ones included.
Sizes == {size \in (0 .. MaxPixels) \X (0 .. MaxPixels) : size[1] * size[2] <= MaxPixels}

NClusterArgs == 0 .. MaxNClusters

\* Find calls FindN(img, nClustersDefault); FindN(img, n) calls FindWeight(img, n).
Invocations ==
    {<<"Find", nClustersDefault>>} \cup ({"FindN"} \X NClusterArgs)

InitCalls(n, palette) ==
    /\ \E size \in Sizes : width = size[1] /\ height = size[2]
    /\ img \in ImagesOf(width, height, palette)
    /\ \E inv \in Invocations : api = inv[1] /\ nClusters = inv[2]
    /\ calls = [c \in 1 .. n |-> NewFrame]

Init == InitCalls(1, PaletteSeq)

InitTwice == InitCalls(2, PaletteSeq)

InitBrightness == InitCalls(1, BrightnessPaletteSeq)

\* Find on a given list of ranked colours (the list FindN returned).
RankedChannels == {<<0, 0, 0>>, <<100, 0, 0>>, <<101, 0, 0>>,
                   <<255, 255, 154>>, <<255, 255, 155>>, <<255, 255, 255>>}

RankedColors == {[R |-> ch[1], G |-> ch[2], B |-> ch[3], A |-> 255] : ch \in RankedChannels}

RankedLists == UNION {[1 .. n -> RankedColors] : n \in 0 .. MaxRanked}

\* The clusters at the end of a converged first round: the m-th seeded
\* cluster has its own centroid and the weight of the pixels it won.
SeededCluster(m, w) ==
    [centroid |-> <<m, 0, 0>>, aggregate |-> <<0, 0, 0>>, counter |-> 0, weight |-> w]

ClusterLists ==
    UNION {{[m \in 1 .. n |-> SeededCluster(m, ws[m])] : ws \in [1 .. n -> 1 .. MaxWeight]}
           : n \in 0 .. MaxSorted}

\* findClusters at the end of its loop, for a request of MaxSorted clusters;
\* the image plays no part in the sort and is left out.
InitSort ==
    /\ width = 0
    /\ height = 0
    /\ img \in ImagesOf(0, 0, PaletteSeq)
    /\ api = "FindN"
    /\ nClusters = MaxSorted
    /\ \E a \in ClusterLists :
          calls = <<[NewFrame EXCEPT !.pc = "iterate", !.nCluster = MaxSorted,
                                     !.clusters = a,
                                     !.round = 1, !.convergence = TRUE]>>

InitFind ==
    /\ width = 0
    /\ height = 0
    /\ img \in ImagesOf(0, 0, PaletteSeq)
    /\ api = "Find"
    /\ nClusters = nClustersDefault
    /\ \E l \in RankedLists : calls = <<[NewFrame EXCEPT !.pc = "listed", !.cols = l]>>

-----------------------------------------------------------------------------
(* Actions. Every invocation that is at the action's place takes the step. *)

Inputs == <<img, width, height, api, nClusters>>

At(pcs) == {c \in DOMAIN calls : calls[c].pc = pcs}

Enter ==
    /\ At("call") # {}
    /\ calls' = [c \in DOMAIN calls |->
                    IF calls[c].pc = "call" THEN EnterStep(calls[c], c) ELSE calls[c]]
    /\ UNCHANGED Inputs

\* randomPoint() on an empty range: rnd.Intn(0) panics.
SeedPanic ==
    /\ At("seed") # {}
    /\ width = 0 \/ height = 0
    /\ calls' = [c \in DOMAIN calls |->
                    IF calls[c].pc = "seed" THEN [calls[c] EXCEPT !.pc = "panic"] ELSE calls[c]]
    /\ UNCHANGED Inputs

\* One sample of the seeding loop. The point drawn is a function of the source:
\* its seed (and its position, the same for all the invocations at "seed").
SeedSample ==
    /\ At("seed") # {}
    /\ width > 0 /\ height > 0
    /\ \E draw \in [{calls[c].rnd : c \in At("seed")} -> Coords] :
          calls' = [c \in DOMAIN calls |->
                       IF calls[c].pc = "seed"
                       THEN SeedStep(calls[c], draw[calls[c].rnd]) ELSE calls[c]]
    /\ UNCHANGED Inputs

Round ==
    /\ \E c \in At("iterate") : LoopCond(calls[c])
    /\ calls' = [c \in DOMAIN calls |->
                    IF calls[c].pc = "iterate" /\ LoopCond(calls[c])
                    THEN RoundStep(calls[c]) ELSE calls[c]]
    /\ UNCHANGED Inputs

SortClusters ==
    /\ \E c \in At("iterate") : ~LoopCond(calls[c])
    /\ calls' = [c \in DOMAIN calls |->
                    IF calls[c].pc = "iterate" /\ ~LoopCond(calls[c])
                    THEN SortStep(calls[c]) ELSE calls[c]]
    /\ UNCHANGED Inputs

FindWeightReturn ==
    /\ At("ranked") # {}
    /\ calls' = [c \in DOMAIN calls |->
                    IF calls[c].pc = "ranked" THEN WeighStep(calls[c]) ELSE calls[c]]
    /\ UNCHANGED Inputs

FindNReturn ==
    /\ api \in {"FindN", "Find"}
    /\ At("weighed") # {}
    /\ calls' = [c \in DOMAIN calls |->
                    IF calls[c].pc = "weighed" THEN ListStep(calls[c]) ELSE calls[c]]
    /\ UNCHANGED Inputs

FindReturn ==
    /\ api = "Find"
    /\ At("listed") # {}
    /\ calls' = [c \in DOMAIN calls |->
                    IF calls[c].pc = "listed" THEN FoundStep(calls[c]) ELSE calls[c]]
    /\ UNCHANGED Inputs

Next ==
    \/ Enter
    \/ SeedPanic
    \/ SeedSample
    \/ Round
    \/ SortClusters
    \/ FindWeightReturn
    \/ FindNReturn
    \/ FindReturn

Spec == Init /\ [][Next]_vars

SpecTwice == InitTwice /\ [][Next]_vars

SpecBrightness == InitBrightness /\ [][Next]_vars

Pass ==
    /\ \E c \in At("iterate") : LoopCond(calls[c])
    /\ calls' = [c \in DOMAIN calls |->
                    IF calls[c].pc = "iterate" /\ LoopCond(calls[c])
                    THEN PassStep(calls[c]) ELSE calls[c]]
    /\ UNCHANGED Inputs

Check ==
    /\ At("check") # {}
    /\ calls' = [c \in DOMAIN calls |->
                    IF calls[c].pc = "check" THEN CheckStep(calls[c]) ELSE calls[c]]
    /\ UNCHANGED Inputs

Recompute ==
    /\ At("recompute") # {}
    /\ calls' = [c \in DOMAIN calls |->
                    IF calls[c].pc = "recompute" THEN RecomputeStep(calls[c]) ELSE calls[c]]
    /\ UNCHANGED Inputs

\* The program with a round taken one statement at a time.
NextSteps ==
    \/ Enter
    \/ SeedPanic
    \/ SeedSample
    \/ Pass
    \/ Check
    \/ Recompute
    \/ SortClusters
    \/ FindWeightReturn
    \/ FindNReturn
    \/ FindReturn

SpecSteps == Init /\ [][NextSteps]_vars

\* sort.Sort(byWeight(clusters)) on the clusters of SpecSort, in any release.
SortLibrary ==
    /\ \E c \in At("iterate") : ~LoopCond(calls[c])
    /\ \E out \in SortOutcomes(calls[1].clusters) :
          calls' = [c \in DOMAIN calls |->
                       IF calls[c].pc = "iterate" /\ ~LoopCond(calls[c])
                       THEN [calls[c] EXCEPT !.clusters = out,
                                             !.unsorted = calls[c].clusters,
                                             !.pc = "ranked"]
                       ELSE calls[c]]
    /\ UNCHANGED Inputs

NextSort == SortLibrary

SpecSort == InitSort /\ [][NextSort]_vars

NextFind == FindReturn

SpecFind == InitFind /\ [][NextFind]_vars

-----------------------------------------------------------------------------
(* Notions the properties are stated with *)

Returned(f) == f.pc \in {"weighed", "listed", "found"}

Opaque == {pt \in Coords : img[pt][4] # 0}

ZeroSized == width = 0 \/ height = 0

AllTransparent == width >= 1 /\ height >= 1 /\ Opaque = {}

RGBOf(pt) == <<ToUint8(img[pt][1]), ToUint8(img[pt][2]), ToUint8(img[pt][3])>>

RECURSIVE SumWeight(_, _)
SumWeight(colors, n) ==
    IF n > Len(colors) THEN 0 ELSE colors[n].Weight.num + SumWeight(colors, n + 1)

ZeroColor == [R |-> 0, G |-> 0, B |-> 0, A |-> 0]

InWindow(c) == 100 < c.R + c.G + c.B /\ c.R + c.G + c.B < 665

-----------------------------------------------------------------------------
(* C1: the weights FindWeight returns sum to at most 1 (the cluster weights   *)
(* sum to at most width x height), and to exactly 1 when no pixel of the      *)
(* image is transparent, however the iteration loop ended.                    *)
C1_WeightConservation ==
    \A c \in DOMAIN calls :
        Returned(calls[c]) =>
            /\ SumWeight(calls[c].colors, 1) <= width * height
            /\ Opaque = Coords => SumWeight(calls[c].colors, 1) = width * height

(* C2: on a zero-sized image no step fails: the invocation never panics,     *)
(* seeds no cluster and returns an empty list.                               *)
C2_ZeroSizedEmptyResult ==
    ZeroSized =>
        \A c \in DOMAIN calls :
            /\ calls[c].pc # "panic"
            /\ Len(calls[c].clusters) = 0
            /\ Returned(calls[c]) => Len(calls[c].colors) = 0

(* C3: on an image of at least 1x1 whose pixels all have alpha 0, seeding    *)
(* creates no cluster, no round runs, FindWeight and FindN return an empty   *)
(* list and Find returns the zero color, without failing.                    *)
C3_TransparentImageEmpty ==
    AllTransparent =>
        \A c \in DOMAIN calls :
            /\ calls[c].pc # "panic"
            /\ Len(calls[c].clusters) = 0
            /\ calls[c].round = 0
            /\ Returned(calls[c]) => Len(calls[c].colors) = 0
            /\ calls[c].pc \in {"listed", "found"} => Len(calls[c].cols) = 0
            /\ calls[c].pc = "found" => calls[c].found = ZeroColor

C3_Witness ==
    /\ AllTransparent
    /\ width * height >= 2
    /\ \E c \in DOMAIN calls : calls[c].pc = "found" /\ calls[c].found = ZeroColor

(* C4: Find returns the first color of the ranked list whose channel sum is  *)
(* strictly between 100 and 665, and the first color of the list when no     *)
(* color of the list is.                                                     *)
C4_BrightnessFilter ==
    \A c \in DOMAIN calls :
        LET f == calls[c]
            ok == {n \in 1 .. Len(f.cols) : InWindow(f.cols[n])}
        IN  (f.pc = "found" /\ Len(f.cols) > 0) =>
                IF ok = {}
                THEN f.found = f.cols[1]
                ELSE \E n \in ok : (\A m \in ok : n <= m) /\ f.found = f.cols[n]

C4_Witness ==
    \E c \in DOMAIN calls :
        LET f == calls[c]
        IN  /\ f.pc = "found"
            /\ Len(f.cols) = 3
            /\ summedColor(f.cols[1]) = 100
            /\ summedColor(f.cols[2]) = 665
            /\ summedColor(f.cols[3]) = 101
            /\ f.found = f.cols[3]

(* C5: findClusters always reaches the ranked state: it never stops short of *)
(* it, seeding stays within nCluster clusters of maxSample samples each and  *)
(* the loop within nIterations rounds.                                       *)
C5_AlwaysRanked ==
    \A c \in DOMAIN calls :
        /\ calls[c].pc # "panic"
        /\ calls[c].i <= calls[c].nCluster
        /\ calls[c].j < maxSample
        /\ calls[c].round <= nIterations

Monochrome == Opaque # {} /\ \A p, q \in Opaque : RGBOf(p) = RGBOf(q)

OneCluster(f) ==
    /\ Len(f.colors) = 1
    /\ \A pt \in Opaque : <<f.colors[1].R, f.colors[1].G, f.colors[1].B>> = RGBOf(pt)
    /\ f.colors[1].Weight.num = Cardinality(Opaque)
    /\ f.colors[1].Weight.den = width * height

C8_RankedAtMostN ==
    \A c \in DOMAIN calls :
        LET f == calls[c]
        IN  /\ Returned(f) =>
                /\ Len(f.colors) <= (IF nClusters <= 0 THEN 4 ELSE nClusters)
                /\ Len(f.colors) = Len(f.clusters)
                /\ \A n \in 1 .. Len(f.colors) :
                      /\ <<f.colors[n].R, f.colors[n].G, f.colors[n].B>> = f.clusters[n].centroid
                      /\ f.colors[n].Weight.num = f.clusters[n].weight
                /\ \A n \in 1 .. Len(f.colors) - 1 :
                      f.colors[n].Weight.num * f.colors[n + 1].Weight.den
                          >= f.colors[n + 1].Weight.num * f.colors[n].Weight.den
            /\ f.pc \in {"listed", "found"} =>
                /\ Len(f.cols) = Len(f.colors)
                /\ \A n \in 1 .. Len(f.cols) :
                      /\ f.cols[n].R = f.colors[n].R
                      /\ f.cols[n].G = f.colors[n].G
                      /\ f.cols[n].B = f.colors[n].B

C8_Witness ==
    /\ api = "FindN"
    /\ nClusters <= 0
    /\ \E c \in DOMAIN calls :
          LET f == calls[c]
          IN  /\ f.pc = "listed"
              /\ Len(f.cols) = 3
              /\ ~InWindow(f.cols[1])
              /\ ~InWindow(f.cols[3])
              /\ f.colors[1].Weight.num > f.colors[2].Weight.num

RedBlueImage ==
    /\ width = 2
    /\ height = 2
    /\ Cardinality({pt \in Coords : img[pt] = Red}) = 2
    /\ Cardinality({pt \in Coords : img[pt] = Blue}) = 2

TwoHalves(f) ==
    /\ f.convergence
    /\ Len(f.colors) = 2
    /\ {<<f.colors[n].R, f.colors[n].G, f.colors[n].B>> : n \in 1 .. 2} = {<<255, 0, 0>>, <<0, 0, 255>>}
    /\ \A n \in 1 .. 2 : 2 * f.colors[n].Weight.num = f.colors[n].Weight.den

InRangeLoop(f) == f.pc \in {"check", "recompute"}

\* The clusters whose "convergence && Compare" statement the round has executed.
Visited(f) ==
    IF f.pc = "check" THEN 1 .. (f.n - 1)
    ELSE IF f.pc = "recompute" THEN 1 .. f.n
    ELSE 1 .. Len(f.clusters)

\* A round has been run and its range loop is over.
RoundOver(f) == f.pc = "iterate" /\ f.round >= 1

\* The flag is the AND of the checks of the visited clusters, each made on
\* the centroid and the aggregate the pixel pass left.
FlagIsAndOfChecks(f) ==
    f.convergence = (\A m \in Visited(f) : CompareCentroidWithAggregate(f.passed[m]))

\* C11 as stated: in every round CompareCentroidWithAggregate is called on
\* every cluster before RecomputeCentroid is called on any cluster, each check
\* reads the cluster as the pixel pass left it, and the flag is the AND of
\* the checks of all clusters.
C11_CompareAllBeforeRecompute ==
    \A c \in DOMAIN calls :
        LET f == calls[c]
        IN  /\ (InRangeLoop(f) \/ RoundOver(f)) =>
                   (f.recomputed # {} => f.checked = 1 .. Len(f.clusters))
            /\ f.pc = "check" => f.clusters[f.n] = f.passed[f.n]
            /\ (InRangeLoop(f) \/ RoundOver(f)) => FlagIsAndOfChecks(f)

\* C11 amended: the clusters are visited in order; the check of a cluster is
\* evaluated (or skipped because the flag is already false) before the
\* recompute of that same cluster and after the recompute of every earlier
\* cluster; each check reads its cluster as the pixel pass left it; the flag
\* is the AND of the checks of all clusters, and the round leaves the
\* clusters as recomputing all of them after all the checks would.
C11_CompareBeforeOwnRecompute ==
    \A c \in DOMAIN calls :
        LET f == calls[c]
        IN  /\ f.pc = "check" =>
                   /\ f.recomputed = 1 .. (f.n - 1)
                   /\ f.clusters[f.n] = f.passed[f.n]
            /\ f.pc = "recompute" =>
                   /\ f.recomputed = 1 .. (f.n - 1)
                   /\ f.clusters[f.n] = f.passed[f.n]
                   /\ (f.n \in f.checked \/ ~f.convergence)
            /\ InRangeLoop(f) =>
                   /\ f.checked \subseteq Visited(f)
                   /\ FlagIsAndOfChecks(f)
            /\ RoundOver(f) =>
                   /\ FlagIsAndOfChecks(f)
                   /\ f.recomputed = 1 .. Len(f.clusters)
                   /\ f.clusters = [m \in 1 .. Len(f.passed) |-> RecomputeCentroid(f.passed[m])]
                   /\ [clusters |-> f.clusters, convergence |-> f.convergence]
                          = RecomputeFrom(f.passed, 1, TRUE)

\* The second cluster is about to be checked, with the flag still true, after
\* the first cluster has been checked and recomputed.
C11_Witness ==
    \E c \in DOMAIN calls :
        LET f == calls[c]
        IN  /\ f.pc = "check"
            /\ f.n = 2
            /\ f.convergence
            /\ f.checked = {1}
            /\ f.recomputed = {1}
            /\ f.clusters[1] # f.passed[1]

(***************************************************************************)
(* The effect of RecomputeCentroid.                                        *)
(***************************************************************************)

\* floor(aggregate / counter), channel by channel.
TruncatedMean(k) ==
    <<k.aggregate[1] \div k.counter, k.aggregate[2] \div k.counter,
      k.aggregate[3] \div k.counter>>

\* C12: RecomputeCentroid on a cluster with counter > 0 sets the centroid to
\* the truncated mean, the weight to the counter, and the aggregate and the
\* counter to zero; on a cluster with counter = 0 it changes no field, so the
\* cluster keeps the centroid and the weight it had; and it touches no
\* cluster other than its receiver.
C12_RecomputeCentroidEffect ==
    \A c \in DOMAIN calls :
        LET f == calls[c]
        IN  (InRangeLoop(f) \/ RoundOver(f)) =>
                /\ Len(f.clusters) = Len(f.passed)
                /\ \A m \in 1 .. Len(f.passed) :
                       LET before == f.passed[m]
                           after  == f.clusters[m]
                       IN  IF m \in f.recomputed /\ before.counter > 0
                           THEN /\ after.centroid = TruncatedMean(before)
                                /\ after.weight = before.counter
                                /\ after.aggregate = <<0, 0, 0>>
                                /\ after.counter = 0
                           ELSE /\ after.centroid = before.centroid
                                /\ after.weight = before.weight
                                /\ after.aggregate = before.aggregate
                                /\ after.counter = before.counter

\* A round has recomputed a cluster that received pixels, whose weight
\* changed, and a cluster that received none and kept the weight of an earlier
\* round.
C12_Witness ==
    \E c \in DOMAIN calls :
        LET f == calls[c]
        IN  /\ RoundOver(f)
            /\ \E m \in f.recomputed :
                   /\ f.passed[m].counter > 0
                   /\ f.clusters[m].weight # f.passed[m].weight
            /\ \E m \in f.recomputed :
                   /\ f.passed[m].counter = 0
                   /\ f.clusters[m].weight >= 1

(***************************************************************************)
(* When the iteration loop stops.                                          *)
(***************************************************************************)

\* In the round just run every cluster received at least one pixel and the
\* truncated mean of its pixels is the centroid it had during the round.
ConvergedRound(f) ==
    \A m \in 1 .. Len(f.passed) :
        /\ f.passed[m].counter > 0
        /\ TruncatedMean(f.passed[m]) = f.passed[m].centroid

\* C13: after a round numbered less than 50 (rounds counted from 1) the loop
\* stops, and the clusters are ranked, if and only if that round converged:
\* every cluster received a pixel and its truncated mean is its centroid;
\* otherwise another round starts. A round in which a cluster received no
\* pixel leaves the flag false, and with zero clusters no round is run.
C13_StopsIffConverged ==
    [][\A c \in DOMAIN calls :
          LET f == calls[c]
              g == calls'[c]
          IN  /\ (RoundOver(f) /\ f.round < nIterations) =>
                     /\ (g.pc = "ranked") <=> ConvergedRound(f)
                     /\ (g.pc = "check") <=> ~ConvergedRound(f)
              /\ (RoundOver(f) /\ \E m \in 1 .. Len(f.passed) : f.passed[m].counter = 0) =>
                     /\ ~f.convergence
                     /\ f.round < nIterations => g.pc = "check"
              /\ (f.pc = "iterate" /\ Len(f.clusters) = 0) =>
                     /\ f.round = 0
                     /\ g.pc = "ranked"
                     /\ g.round = 0]_vars

\* The loop has stopped after a converged round that is not the first and not
\* the fiftieth, with two clusters.
C13_Witness ==
    \E c \in DOMAIN calls :
        LET f == calls[c]
        IN  /\ f.pc = "ranked"
            /\ f.round >= 2
            /\ f.round < nIterations
            /\ Len(f.clusters) = 2
            /\ ConvergedRound(f)

(***************************************************************************)
(* The final ranking.                                                      *)
(***************************************************************************)

\* The position of the cluster with centroid ctr in the list a.
PositionOf(a, ctr) == CHOOSE m \in 1 .. Len(a) : a[m].centroid = ctr

\* C14: the ranking is a permutation of the clusters the loop left, with
\* non-increasing weights, and two clusters of equal weight are in the order
\* they had before the sort, for every cluster count.
C14_StableRanking ==
    \A c \in DOMAIN calls :
        LET f == calls[c]
        IN  f.pc = "ranked" =>
                /\ Len(f.clusters) = Len(f.unsorted)
                /\ \A m \in 1 .. Len(f.unsorted) :
                       \E p \in 1 .. Len(f.clusters) : f.clusters[p] = f.unsorted[m]
                /\ \A p, q \in 1 .. Len(f.clusters) :
                       p < q =>
                          /\ f.clusters[p].weight >= f.clusters[q].weight
                          /\ f.clusters[p].weight = f.clusters[q].weight =>
                                 PositionOf(f.unsorted, f.clusters[p].centroid)
                                    < PositionOf(f.unsorted, f.clusters[q].centroid)

(***************************************************************************)
(* The pixel pass of a round.                                              *)
(***************************************************************************)

\* The squared distance of the color rgb from the centroid ctr.
DistanceSqr(ctr, rgb) ==
    (rgb[1] - ctr[1]) * (rgb[1] - ctr[1]) + (rgb[2] - ctr[2]) * (rgb[2] - ctr[2])
        + (rgb[3] - ctr[3]) * (rgb[3] - ctr[3])

\* The non-transparent pixels whose nearest centroid of a is that of cluster
\* m, the first of the nearest ones when several are equally near.
AssignedTo(a, m) ==
    {pt \in Opaque :
        \A q \in 1 .. Len(a) :
            LET dm == DistanceSqr(a[m].centroid, RGBOf(pt))
                dq == DistanceSqr(a[q].centroid, RGBOf(pt))
            IN  dm <= dq /\ (q < m => dm < dq)}

RECURSIVE ChannelSum(_, _)
ChannelSum(pts, ch) ==
    IF pts = {} THEN 0
    ELSE LET pt == CHOOSE q \in pts : TRUE
         IN  RGBOf(pt)[ch] + ChannelSum(pts \ {pt}, ch)

RECURSIVE SumCounters(_, _)
SumCounters(a, m) ==
    IF m > Len(a) THEN 0 ELSE a[m].counter + SumCounters(a, m + 1)

\* C15: in every round Closest returns a cluster for every non-transparent
\* pixel; when the pixel pass is over the counters sum to the number of
\* non-transparent pixels, and each cluster's counter and aggregate are the
\* number and the per-channel sum of exactly the pixels nearest to it in this
\* round, with nothing left from earlier rounds.
C15_PassAccounting ==
    \A c \in DOMAIN calls :
        LET f == calls[c]
        IN  (f.pc = "check" /\ f.n = 1) =>
                /\ f.clusters = f.passed
                /\ \A pt \in Opaque :
                       Closest(f.passed, RGBOf(pt)[1], RGBOf(pt)[2], RGBOf(pt)[3])
                           \in 1 .. Len(f.passed)
                /\ SumCounters(f.passed, 1) = Cardinality(Opaque)
                /\ \A m \in 1 .. Len(f.passed) :
                       LET pts == AssignedTo(f.passed, m)
                       IN  /\ f.passed[m].counter = Cardinality(pts)
                           /\ f.passed[m].aggregate =
                                  <<ChannelSum(pts, 1), ChannelSum(pts, 2), ChannelSum(pts, 3)>>

\* The pass of a round after the first, on an image with a transparent pixel
\* and at least three others, has given pixels to each of two clusters.
C15_Witness ==
    \E c \in DOMAIN calls :
        LET f == calls[c]
        IN  /\ f.pc = "check"
            /\ f.n = 1
            /\ f.round >= 1
            /\ Opaque # Coords
            /\ Cardinality(Opaque) >= 3
            /\ Len(f.passed) = 2
            /\ f.passed[1].counter >= 1
            /\ f.passed[2].counter >= 1

(***************************************************************************)
(* The weights of the clusters findClusters returns.                       *)
(***************************************************************************)

\* The frame has run at least one round, or findClusters has returned.
Weighted(f) ==
    \/ f.pc = "iterate" /\ f.round >= 1
    \/ f.pc \in {"ranked", "weighed", "listed", "found"}

\* C16: once the first round is over, and so in what findClusters returns,
\* every cluster has a weight of at least 1 pixel and at most the number of
\* non-transparent pixels; a non-empty cluster set is returned only after at
\* least one round.
C16_WeightAtLeastOne ==
    \A c \in DOMAIN calls :
        LET f == calls[c]
        IN  /\ Weighted(f) =>
                   \A m \in 1 .. Len(f.clusters) :
                       /\ f.clusters[m].weight >= 1
                       /\ f.clusters[m].weight <= Cardinality(Opaque)
            /\ (f.pc = "ranked" /\ Len(f.clusters) >= 1) => f.round >= 1

\* findClusters returned two clusters after all 50 rounds, and their weights
\* sum to more than the non-transparent pixels: one of them kept the weight
\* of an earlier round.
C16_Witness ==
    \E c \in DOMAIN calls :
        LET f == calls[c]
        IN  /\ f.pc = "ranked"
            /\ f.round = nIterations
            /\ Len(f.clusters) = 2
            /\ f.clusters[1].weight + f.clusters[2].weight > Cardinality(Opaque)
====
